---- MODULE Spec2Model ----
(***************************************************************************)
(* The dynamic plugin control command of lightningd                        *)
(* (lightningd/plugin_control.c): the "plugin" JSON-RPC command with its   *)
(* subcommands start, stop, startdir, rescan and list, and the three       *)
(* completion entry points plugin_cmd_killed, plugin_cmd_succeeded and     *)
(* plugin_cmd_all_complete.                                                *)
(*                                                                         *)
(* The plugin registry, the handshake layer and the JSON-RPC reply         *)
(* functions live in other files of the daemon (lightningd/plugin.c,       *)
(* lightningd/jsonrpc.c).  They are modelled here from their documented    *)
(* interface: the registry as an insertion-ordered list of records, the    *)
(* handshake layer as the cohort bookkeeping that decides when a           *)
(* completion entry point is invoked.                                      *)
(*                                                                         *)
(* Every handler is an operator from a working state (the program state    *)
(* plus the registers res, err and p that carry a callee's return value)   *)
(* to the working state after it.                                          *)
(***************************************************************************)
EXTENDS Naturals, Integers, Sequences, FiniteSets, TLC

VARIABLES
    plugins,    \* the registry: records in insertion order
    replies,    \* per request: the terminal replies sent to the transport
    ret,        \* per request: what json_plugin_control returned
    req,        \* per request: the subcommand and its argument
    resolved,   \* per request: the request has been completed
    cohort,     \* per request: the cohort of startup attempts it waits for
    calls,      \* per request: completion entry points invoked for it
    kills,      \* per request: registry indexes plugin_dynamic_stop killed
    ncmd,       \* number of requests dispatched so far
    deprecated_apis \* the daemon's legacy-compatibility option

vars ==
    <<plugins, replies, ret, req, resolved, cohort, calls, kills, ncmd,
      deprecated_apis>>

\* Number of control requests of one run.
MaxReq == 3

Cmds == 1..MaxReq

(***************************************************************************)
(* The file system the daemon runs on.                                     *)
(***************************************************************************)
Path(d, b) == [dir |-> d, base |-> b]

NoPath == Path("", "")

\* A bare plugin name, as given to "plugin stop".
Name(b) == Path("", b)

\* Executables of each directory, in the order a directory scan yields them.
DirList(d) ==
    CASE d = "/lib" -> <<Path("/lib", "foo")>>
      [] d = "/p"   -> <<Path("/p", "foo"), Path("/p", "bar")>>
      [] d = "/def" -> <<Path("/def", "bar")>>
      [] OTHER      -> <<>>

\* Directories for which access(dir, F_OK) succeeds.
ExistingDirs == {"/lib", "/p", "/def", "/empty", "/locked"}

\* Existing directories a scan cannot open.
UnreadableDirs == {"/locked"}

\* The default plugin directory "plugin rescan" looks into.
DefaultDir == "/def"

\* Files for which access(path, X_OK) succeeds.
Executables ==
    {Path("/lib", "foo"), Path("/p", "foo"), Path("/p", "bar"),
     Path("/def", "bar")}

\* Arguments the operator may give.
StartArgs == {Path("/p", "bar"), Path("/lib", "foo"), Path("/p", "txt")}

StartDirArgs == {"/p", "/empty", "/none", "/locked"}

StopArgs == {Name("foo"), Name("bar"), Name("nope")}

\* Reasons the handshake layer gives for a failed startup attempt.
HandshakeFailure == "failed to respond to getmanifest"

TimeoutReason == "timed out"

StopReason == "stopped by lightningd via RPC"

(***************************************************************************)
(* Working state.                                                          *)
(***************************************************************************)
State ==
    [plugins |-> plugins, replies |-> replies, resolved |-> resolved,
     cohort |-> cohort, calls |-> calls, kills |-> kills,
     res |-> "NULL", err |-> "NULL", p |-> 0]

NoCohort ==
    [open |-> FALSE, kind |-> "none", expectedCount |-> 0,
     completedCount |-> 0, failed |-> FALSE]

\* Plugins loaded from the configuration at startup: not dynamic.
StartupPlugins ==
    << [cmd |-> Path("/lib", "foo"), dynamic |-> FALSE,
        plugin_state |-> "INIT_COMPLETE", start_cmd |-> 0, hs |-> TRUE,
        sig |-> "succeeded"] >>

Init ==
    /\ plugins = StartupPlugins
    /\ replies = [c \in Cmds |-> <<>>]
    /\ ret = [c \in Cmds |-> "none"]
    /\ req = [c \in Cmds |-> [subcmd |-> "none", arg |-> NoPath]]
    /\ resolved = [c \in Cmds |-> FALSE]
    /\ cohort = [c \in Cmds |-> NoCohort]
    /\ calls = [c \in Cmds |-> {}]
    /\ kills = [c \in Cmds |-> <<>>]
    /\ ncmd = 0
    /\ deprecated_apis \in BOOLEAN

(***************************************************************************)
(* JSON-RPC replies (lightningd/jsonrpc.c).                                *)
(***************************************************************************)
command_complete(st, cmd, reply) ==
    [st EXCEPT !.replies[cmd] = Append(@, reply),
               !.resolved[cmd] = TRUE,
               !.res = "complete"]

command_fail(st, cmd, code, what, who) ==
    command_complete(st, cmd,
        [kind |-> "fail", code |-> code, what |-> what, who |-> who,
         plugins |-> <<>>, legacy |-> ""])

command_success(st, cmd, what, who, list, legacy) ==
    command_complete(st, cmd,
        [kind |-> "success", code |-> "none", what |-> what, who |-> who,
         plugins |-> list, legacy |-> legacy])

command_still_pending(st, cmd) == [st EXCEPT !.res = "pending"]

(***************************************************************************)
(* plugin_control.c: the reply of every successful subcommand but stop.    *)
(***************************************************************************)
\* Variant: every plugin that was not killed is listed as active.
plugin_dynamic_list_plugins_StartingActive(st, cmd) ==
    command_success(st, cmd, "plugins", NoPath,
        [i \in 1..Len(st.plugins) |->
            [name |-> st.plugins[i].cmd,
             active |-> st.plugins[i].plugin_state # "Killed"]],
        "")

plugin_dynamic_list_plugins(st, cmd) ==
    command_success(st, cmd, "plugins", NoPath,
        [i \in 1..Len(st.plugins) |->
            [name |-> st.plugins[i].cmd,
             active |-> st.plugins[i].plugin_state = "INIT_COMPLETE"]],
        "")

Called(st, cmd, entry) == [st EXCEPT !.calls[cmd] = @ \cup {entry}]

\* Variant: the entry point returns without replying.
plugin_cmd_killed_NoReply(st, cmd, plugin, msg) ==
    Called(st, cmd, "plugin_cmd_killed")

\* Variant: the failure is reported with the code of a parameter error.
plugin_cmd_killed_WrongCode(st, cmd, plugin, msg) ==
    command_fail(Called(st, cmd, "plugin_cmd_killed"), cmd,
                 "JSONRPC2_INVALID_PARAMS", msg, plugin.cmd)

\* Variant: the reason is left out of the failure.
plugin_cmd_killed_DropsMsg(st, cmd, plugin, msg) ==
    command_fail(Called(st, cmd, "plugin_cmd_killed"), cmd,
                 "PLUGIN_ERROR", "", plugin.cmd)

\* Variant: the failure of a member is answered with the listing.
plugin_cmd_killed_AsSuccess(st, cmd, plugin, msg) ==
    plugin_dynamic_list_plugins(Called(st, cmd, "plugin_cmd_killed"), cmd)

\* Variant: the other plugins the request started are killed as well.
plugin_cmd_killed_KillsSiblings(st, cmd, plugin, msg) ==
    command_fail(
        [Called(st, cmd, "plugin_cmd_killed") EXCEPT
            !.plugins = [i \in DOMAIN st.plugins |->
                IF st.plugins[i].start_cmd = cmd
                THEN [st.plugins[i] EXCEPT !.plugin_state = "Killed"]
                ELSE st.plugins[i]]],
        cmd, "PLUGIN_ERROR", msg, plugin.cmd)

plugin_cmd_killed(st, cmd, plugin, msg) ==
    command_fail(Called(st, cmd, "plugin_cmd_killed"), cmd,
                 "PLUGIN_ERROR", msg, plugin.cmd)

plugin_cmd_succeeded(st, cmd, plugin) ==
    plugin_dynamic_list_plugins(Called(st, cmd, "plugin_cmd_succeeded"), cmd)

plugin_cmd_all_complete(st, cmd) ==
    plugin_dynamic_list_plugins(Called(st, cmd, "plugin_cmd_all_complete"), cmd)

(***************************************************************************)
(* The plugin registry and the handshake layer (lightningd/plugin.c).      *)
(***************************************************************************)
\* A name or path designates a record by path equality or by basename.
plugin_paths_match(cmd, name) == cmd = name \/ cmd.base = name.base

\* Registers one startup attempt for path; p is its index, 0 if the path is
\* already registered.  A request given as cmd opens a cohort of size 1.
plugin_register(st, path, cmd) ==
    IF \E i \in DOMAIN st.plugins : st.plugins[i].cmd = path
    THEN [st EXCEPT !.p = 0]
    ELSE LET s1 == [st EXCEPT
                       !.plugins = Append(@,
                           [cmd |-> path, dynamic |-> TRUE,
                            plugin_state |-> "Starting", start_cmd |-> cmd,
                            hs |-> FALSE, sig |-> "none"]),
                       !.p = Len(st.plugins) + 1]
         IN  IF cmd = 0
             THEN s1
             ELSE [s1 EXCEPT !.cohort[cmd] =
                      [open |-> TRUE, kind |-> "single", expectedCount |-> 1,
                       completedCount |-> 0, failed |-> FALSE]]

RECURSIVE register_each(_, _)
register_each(st, paths) ==
    IF paths = <<>>
    THEN st
    ELSE register_each(plugin_register(st, Head(paths), 0), Tail(paths))

\* Registers every not yet known executable of dir; err on a directory that
\* cannot be scanned.
add_plugin_dir(st, dir, flag) ==
    IF dir \in UnreadableDirs
    THEN [st EXCEPT !.err = "Failed to open plugin-dir"]
    ELSE [register_each(st, DirList(dir)) EXCEPT !.err = "NULL"]

plugins_add_default_dir(st) == register_each(st, DirList(DefaultDir))

\* The records registered by the running handler and not yet in a cohort.
NewlyRegistered(st) ==
    {i \in DOMAIN st.plugins :
        /\ st.plugins[i].start_cmd = 0
        /\ st.plugins[i].plugin_state = "Starting"}

\* Opens the cohort of cmd over the newly registered records; with none
\* added it completes cmd at once, otherwise it returns NULL.
plugin_register_all_complete(st, cmd) ==
    LET new == NewlyRegistered(st)
        s1 == [st EXCEPT
                  !.plugins = [i \in DOMAIN st.plugins |->
                      IF i \in new
                      THEN [st.plugins[i] EXCEPT !.start_cmd = cmd]
                      ELSE st.plugins[i]],
                  !.cohort[cmd] =
                      [open |-> TRUE, kind |-> "all",
                       expectedCount |-> Cardinality(new),
                       completedCount |-> 0, failed |-> FALSE]]
    IN  IF new = {}
        THEN plugin_cmd_all_complete(s1, cmd)
        ELSE [s1 EXCEPT !.res = "NULL"]

\* Begins the handshake of record i; err when the process cannot be started.
plugin_send_getmanifest(st, i, fails) ==
    IF fails
    THEN [st EXCEPT !.err = "failed to start"]
    ELSE [st EXCEPT !.plugins[i].hs = TRUE, !.err = "NULL"]

\* Begins the handshake of every record that has none yet.
plugins_send_getmanifest(st) ==
    [st EXCEPT !.plugins = [i \in DOMAIN st.plugins |->
        IF st.plugins[i].plugin_state = "Starting" /\ ~st.plugins[i].hs
        THEN [st.plugins[i] EXCEPT !.hs = TRUE]
        ELSE st.plugins[i]]]

\* A cohort still waits: opened, its request not completed, no member failed.
CohortLive(st, c) ==
    /\ c # 0
    /\ st.cohort[c].open
    /\ ~st.resolved[c]
    /\ ~st.cohort[c].failed

\* Completion signal: member i of a cohort succeeded.
onMemberSucceeded(st, i) ==
    LET c == st.plugins[i].start_cmd
    IN  IF ~CohortLive(st, c)
        THEN st
        ELSE LET s1 == [st EXCEPT !.cohort[c].completedCount = @ + 1]
             IN  IF s1.cohort[c].completedCount # s1.cohort[c].expectedCount
                 THEN s1
                 ELSE IF s1.cohort[c].kind = "single"
                      THEN plugin_cmd_succeeded(s1, c, s1.plugins[i])
                      ELSE plugin_cmd_all_complete(s1, c)

\* Completion signal: member i of a cohort failed.
onMemberFailed(st, i, reason) ==
    LET c == st.plugins[i].start_cmd
    IN  IF ~CohortLive(st, c)
        THEN st
        ELSE plugin_cmd_killed([st EXCEPT !.cohort[c].failed = TRUE],
                               c, st.plugins[i], reason)

\* The handshake of record i completed.
plugin_init_complete(st, i) ==
    onMemberSucceeded(
        [st EXCEPT !.plugins[i].plugin_state = "INIT_COMPLETE",
                   !.plugins[i].sig = "succeeded"], i)

\* Kills record i; a record killed while starting fails its attempt.
plugin_kill(st, i, msg) ==
    LET s1 == [st EXCEPT !.plugins[i].plugin_state = "Killed",
                         !.plugins[i].sig = IF @ = "none" THEN msg ELSE @]
    IN  IF st.plugins[i].sig = "none"
        THEN onMemberFailed(s1, i, msg)
        ELSE s1

(***************************************************************************)
(* plugin_control.c: the subcommand handlers.                              *)
(***************************************************************************)
\* Variant: a path that is already registered is not answered.
plugin_dynamic_start_NoDupReply(st, cmd, plugin_path, fails) ==
    LET s1 == plugin_register(st, plugin_path, cmd)
    IN  IF s1.p = 0
        THEN command_still_pending(s1, cmd)
        ELSE LET s2 == plugin_send_getmanifest(s1, s1.p, fails)
             IN  IF s2.err # "NULL"
                 THEN command_fail(s2, cmd, "PLUGIN_ERROR", s2.err,
                                   plugin_path)
                 ELSE command_still_pending(s2, cmd)

\* Variant: a handshake that cannot be begun is answered, then the handler
\* goes on to return pending.
plugin_dynamic_start_ErrPending(st, cmd, plugin_path, fails) ==
    LET s1 == plugin_register(st, plugin_path, cmd)
    IN  IF s1.p = 0
        THEN command_fail(s1, cmd, "JSONRPC2_INVALID_PARAMS",
                          "already registered", plugin_path)
        ELSE LET s2 == plugin_send_getmanifest(s1, s1.p, fails)
             IN  IF s2.err # "NULL"
                 THEN command_still_pending(
                          command_fail(s2, cmd, "PLUGIN_ERROR", s2.err,
                                       plugin_path), cmd)
                 ELSE command_still_pending(s2, cmd)

\* Variant: the plugin is registered without the request that starts it.
plugin_dynamic_start_Unowned(st, cmd, plugin_path, fails) ==
    LET s1 == plugin_register(st, plugin_path, 0)
    IN  IF s1.p = 0
        THEN command_fail(s1, cmd, "JSONRPC2_INVALID_PARAMS",
                          "already registered", plugin_path)
        ELSE LET s2 == plugin_send_getmanifest(s1, s1.p, fails)
             IN  IF s2.err # "NULL"
                 THEN command_fail(s2, cmd, "PLUGIN_ERROR", s2.err,
                                   plugin_path)
                 ELSE command_still_pending(s2, cmd)

plugin_dynamic_start(st, cmd, plugin_path, fails) ==
    LET s1 == plugin_register(st, plugin_path, cmd)
    IN  IF s1.p = 0
        THEN command_fail(s1, cmd, "JSONRPC2_INVALID_PARAMS",
                          "already registered", plugin_path)
        ELSE LET s2 == plugin_send_getmanifest(s1, s1.p, fails)
             IN  IF s2.err # "NULL"
                 THEN command_fail(s2, cmd, "PLUGIN_ERROR", s2.err,
                                   plugin_path)
                 ELSE command_still_pending(s2, cmd)

\* Variant: the reply of an empty cohort is sent a second time.
plugin_dynamic_startdir_ReplyTwice(st, cmd, dir_path) ==
    LET s1 == add_plugin_dir(st, dir_path.dir, FALSE)
    IN  IF s1.err # "NULL"
        THEN command_fail(s1, cmd, "JSONRPC2_INVALID_PARAMS", s1.err,
                          dir_path)
        ELSE LET s2 == plugin_register_all_complete(s1, cmd)
             IN  IF s2.res # "NULL"
                 THEN plugin_dynamic_list_plugins(s2, cmd)
                 ELSE command_still_pending(plugins_send_getmanifest(s2), cmd)

\* Variant: the handler replies itself instead of waiting for the cohort.
plugin_dynamic_startdir_NoWait(st, cmd, dir_path) ==
    LET s1 == add_plugin_dir(st, dir_path.dir, FALSE)
    IN  IF s1.err # "NULL"
        THEN command_fail(s1, cmd, "JSONRPC2_INVALID_PARAMS", s1.err,
                          dir_path)
        ELSE LET s2 == plugin_register_all_complete(s1, cmd)
             IN  IF s2.res # "NULL"
                 THEN s2
                 ELSE plugin_dynamic_list_plugins(
                          plugins_send_getmanifest(s2), cmd)

\* Variant: the result of plugin_register_all_complete is not returned.
plugin_dynamic_startdir_NoEarlyReturn(st, cmd, dir_path) ==
    LET s1 == add_plugin_dir(st, dir_path.dir, FALSE)
    IN  IF s1.err # "NULL"
        THEN command_fail(s1, cmd, "JSONRPC2_INVALID_PARAMS", s1.err,
                          dir_path)
        ELSE command_still_pending(
                 plugins_send_getmanifest(
                     plugin_register_all_complete(s1, cmd)), cmd)

plugin_dynamic_startdir(st, cmd, dir_path) ==
    LET s1 == add_plugin_dir(st, dir_path.dir, FALSE)
    IN  IF s1.err # "NULL"
        THEN command_fail(s1, cmd, "JSONRPC2_INVALID_PARAMS", s1.err,
                          dir_path)
        ELSE LET s2 == plugin_register_all_complete(s1, cmd)
             IN  IF s2.res # "NULL"
                 THEN s2
                 ELSE command_still_pending(plugins_send_getmanifest(s2), cmd)

\* list_for_each: the first record of the registry that matches.
FirstMatch(st, plugin_name) ==
    LET m == {i \in DOMAIN st.plugins :
                 plugin_paths_match(st.plugins[i].cmd, plugin_name)}
    IN  IF m = {} THEN 0 ELSE CHOOSE i \in m : \A j \in m : i <= j

\* Variant: the first match is killed whether it is dynamic or not.
plugin_dynamic_stop_NoDynamicCheck(st, cmd, plugin_name) ==
    LET i == FirstMatch(st, plugin_name)
    IN  IF i = 0
        THEN command_fail(st, cmd, "JSONRPC2_INVALID_PARAMS",
                          "Could not find plugin", plugin_name)
        ELSE command_success(
                 [plugin_kill(st, i, StopReason) EXCEPT
                     !.kills[cmd] = Append(@, i)],
                 cmd, "Successfully stopped", plugin_name, <<>>,
                 IF deprecated_apis THEN "Successfully stopped" ELSE "")

\* Variant: success is replied without killing the plugin.
plugin_dynamic_stop_NoKill(st, cmd, plugin_name) ==
    LET i == FirstMatch(st, plugin_name)
    IN  IF i = 0
        THEN command_fail(st, cmd, "JSONRPC2_INVALID_PARAMS",
                          "Could not find plugin", plugin_name)
        ELSE IF ~st.plugins[i].dynamic
        THEN command_fail(st, cmd, "JSONRPC2_INVALID_PARAMS",
                          "cannot be managed when lightningd is up",
                          plugin_name)
        ELSE command_success(st, cmd, "Successfully stopped", plugin_name,
                 <<>>,
                 IF deprecated_apis THEN "Successfully stopped" ELSE "")

\* Variant: a plugin that has not completed its startup is not stopped.
plugin_dynamic_stop_RefusesStarting(st, cmd, plugin_name) ==
    LET i == FirstMatch(st, plugin_name)
    IN  IF i = 0
        THEN command_fail(st, cmd, "JSONRPC2_INVALID_PARAMS",
                          "Could not find plugin", plugin_name)
        ELSE IF ~st.plugins[i].dynamic
                \/ st.plugins[i].plugin_state = "Starting"
        THEN command_fail(st, cmd, "JSONRPC2_INVALID_PARAMS",
                          "cannot be managed when lightningd is up",
                          plugin_name)
        ELSE command_success(
                 [plugin_kill(st, i, StopReason) EXCEPT
                     !.kills[cmd] = Append(@, i)],
                 cmd, "Successfully stopped", plugin_name, <<>>,
                 IF deprecated_apis THEN "Successfully stopped" ELSE "")

plugin_dynamic_stop(st, cmd, plugin_name) ==
    LET i == FirstMatch(st, plugin_name)
    IN  IF i = 0
        THEN command_fail(st, cmd, "JSONRPC2_INVALID_PARAMS",
                          "Could not find plugin", plugin_name)
        ELSE IF ~st.plugins[i].dynamic
        THEN command_fail(st, cmd, "JSONRPC2_INVALID_PARAMS",
                          "cannot be managed when lightningd is up",
                          plugin_name)
        ELSE command_success(
                 [plugin_kill(st, i, StopReason) EXCEPT
                     !.kills[cmd] = Append(@, i)],
                 cmd, "Successfully stopped", plugin_name, <<>>,
                 IF deprecated_apis THEN "Successfully stopped" ELSE "")

\* Variant: the result of plugin_register_all_complete is not returned.
plugin_dynamic_rescan_plugins_NoEarlyReturn(st, cmd) ==
    command_still_pending(
        plugin_register_all_complete(plugins_add_default_dir(st), cmd), cmd)

plugin_dynamic_rescan_plugins(st, cmd) ==
    LET s1 == plugins_add_default_dir(st)
        s2 == plugin_register_all_complete(s1, cmd)
    IN  IF s2.res # "NULL"
        THEN s2
        ELSE command_still_pending(s2, cmd)

\* Variant: start does not check that the path is executable.
json_plugin_control_NoAccessCheck(st, cmd, subcmd, arg, fails) ==
    CASE subcmd = "stop" -> plugin_dynamic_stop(st, cmd, arg)
      [] subcmd = "start" -> plugin_dynamic_start(st, cmd, arg, fails)
      [] subcmd = "startdir" ->
            IF arg.dir \in ExistingDirs
            THEN plugin_dynamic_startdir(st, cmd, arg)
            ELSE command_fail(st, cmd, "JSONRPC2_INVALID_PARAMS",
                              "Could not open", arg)
      [] subcmd = "rescan" -> plugin_dynamic_rescan_plugins(st, cmd)
      [] subcmd = "list" -> plugin_dynamic_list_plugins(st, cmd)

json_plugin_control(st, cmd, subcmd, arg, fails) ==
    CASE subcmd = "stop" -> plugin_dynamic_stop(st, cmd, arg)
      [] subcmd = "start" ->
            IF arg \in Executables
            THEN plugin_dynamic_start(st, cmd, arg, fails)
            ELSE command_fail(st, cmd, "JSONRPC2_INVALID_PARAMS",
                              "is not executable", arg)
      [] subcmd = "startdir" ->
            IF arg.dir \in ExistingDirs
            THEN plugin_dynamic_startdir(st, cmd, arg)
            ELSE command_fail(st, cmd, "JSONRPC2_INVALID_PARAMS",
                              "Could not open", arg)
      [] subcmd = "rescan" -> plugin_dynamic_rescan_plugins(st, cmd)
      [] subcmd = "list" -> plugin_dynamic_list_plugins(st, cmd)

(***************************************************************************)
(* Actions: one per control request and per asynchronous event.            *)
(***************************************************************************)
Commit(st) ==
    /\ plugins' = st.plugins
    /\ replies' = st.replies
    /\ resolved' = st.resolved
    /\ cohort' = st.cohort
    /\ calls' = st.calls
    /\ kills' = st.kills

Dispatch(subcmd, arg, fails) ==
    /\ ncmd < MaxReq
    /\ LET c == ncmd + 1
           st == json_plugin_control(State, c, subcmd, arg, fails)
       IN  /\ Commit(st)
           /\ ret' = [ret EXCEPT ![c] = st.res]
           /\ req' = [req EXCEPT ![c] = [subcmd |-> subcmd, arg |-> arg]]
           /\ ncmd' = c
           /\ UNCHANGED deprecated_apis

Start == \E path \in StartArgs, fails \in BOOLEAN : Dispatch("start", path, fails)

Stop == \E name \in StopArgs : Dispatch("stop", name, FALSE)

StartDir == \E d \in StartDirArgs : Dispatch("startdir", Path(d, ""), FALSE)

Rescan == Dispatch("rescan", NoPath, FALSE)

List == Dispatch("list", NoPath, FALSE)

\* The handshake of record i ends well.
MemberSucceeded(i) ==
    /\ i \in DOMAIN plugins
    /\ plugins[i].hs
    /\ plugins[i].sig = "none"
    /\ Commit(plugin_init_complete(State, i))
    /\ UNCHANGED <<ret, req, ncmd, deprecated_apis>>

\* The handshake of record i fails.
MemberFailed(i) ==
    /\ i \in DOMAIN plugins
    /\ plugins[i].hs
    /\ plugins[i].sig = "none"
    /\ Commit(plugin_kill(State, i, HandshakeFailure))
    /\ UNCHANGED <<ret, req, ncmd, deprecated_apis>>

\* The timer of a cohort that still waits expires on its member i.
Timeout(i) ==
    /\ i \in DOMAIN plugins
    /\ plugins[i].sig = "none"
    /\ CohortLive(State, plugins[i].start_cmd)
    /\ Commit(plugin_kill(State, i, TimeoutReason))
    /\ UNCHANGED <<ret, req, ncmd, deprecated_apis>>

\* Every index a record of the registry can get.
PluginIds ==
    1..(Len(StartupPlugins) + Len(DirList("/p")) + Len(DirList(DefaultDir)))

Succeeded == \E i \in PluginIds : MemberSucceeded(i)

Failed == \E i \in PluginIds : MemberFailed(i)

TimedOut == \E i \in PluginIds : Timeout(i)

Next ==
    \/ Start
    \/ Stop
    \/ StartDir
    \/ Rescan
    \/ List
    \/ Succeeded
    \/ Failed
    \/ TimedOut

Spec == Init /\ [][Next]_vars

\* Every handshake that was begun ends, and the timer of a waiting cohort
\* expires.
Fairness == WF_vars(Succeeded \/ Failed) /\ WF_vars(TimedOut)

\* Number of control requests of a run checked for eventual resolution.
MaxLiveReq == 2

LiveNext == Next /\ ncmd' <= MaxLiveReq

LiveSpec == Init /\ [][LiveNext]_vars /\ Fairness

(***************************************************************************)
(* Properties.                                                             *)
(***************************************************************************)
\* The records that are members of the cohort of request c.
Members(c) == {i \in DOMAIN plugins : plugins[i].start_cmd = c}

HasSuccess(c) == \E k \in DOMAIN replies[c] : replies[c][k].kind = "success"

Failure(code, what, who) ==
    [kind |-> "fail", code |-> code, what |-> what, who |-> who,
     plugins |-> <<>>, legacy |-> ""]

\* The reply that lists the registry r.
Listing(r) ==
    [kind |-> "success", code |-> "none", what |-> "plugins", who |-> NoPath,
     plugins |-> [i \in 1..Len(r) |->
                     [name |-> r[i].cmd,
                      active |-> r[i].plugin_state = "INIT_COMPLETE"]],
     legacy |-> ""]

\* This step dispatches request c.
Dispatched(c) == ncmd = c - 1 /\ ncmd' = c

\* C1: no request ever receives more than one terminal reply, whatever the
\* sequence of dispatches, member-succeeded signals, member-failed signals
\* and timeouts.
C1_AtMostOnce == \A c \in Cmds : Len(replies[c]) <= 1

\* C1 witness: a cohort of two failed fast, its other member completed
\* afterwards, and the request holds its single reply.
C1_Witness ==
    \E c \in Cmds :
        /\ cohort[c].failed
        /\ cohort[c].expectedCount = 2
        /\ \A i \in Members(c) : plugins[i].sig # "none"
        /\ Len(replies[c]) = 1

\* C2: every request for which the dispatcher returned pending eventually
\* holds exactly one reply, given that every begun handshake ends and that
\* the timer of a waiting cohort expires.
C2_EventualResolution ==
    \A c \in Cmds : (ret[c] = "pending") ~> (Len(replies[c]) = 1)

\* C2 witness: a rescan that returned pending has been resolved.
C2_Witness ==
    \E c \in Cmds :
        /\ req[c].subcmd = "rescan"
        /\ ret[c] = "pending"
        /\ Len(replies[c]) = 1

\* C3: a startdir request that opened a cohort has a success reply exactly
\* when every member of the cohort signalled success (none failed, none
\* timed out, none is still starting), and the cohort counts what the
\* request registered.
C3_AllOrNothing ==
    \A c \in Cmds :
        (req[c].subcmd = "startdir" /\ cohort[c].open) =>
            /\ Cardinality(Members(c)) = cohort[c].expectedCount
            /\ HasSuccess(c) <=>
                   (\A i \in Members(c) : plugins[i].sig = "succeeded")

\* C3 witness: a startdir cohort of two resolved with success.
C3_Witness ==
    \E c \in Cmds :
        /\ req[c].subcmd = "startdir"
        /\ cohort[c].expectedCount = 2
        /\ HasSuccess(c)

\* C4: in a cohort of two or more that still waits, the step in which a
\* member fails gives the request its reply, a PLUGIN_ERROR that names the
\* failed plugin and the reason, while other members may still be starting;
\* once a cohort has failed no later step changes the replies of its request.
C4_FailFast ==
    [][/\ \A i \in DOMAIN plugins :
              LET c == plugins[i].start_cmd
              IN  (/\ plugins[i].sig = "none"
                   /\ plugins'[i].sig \notin {"none", "succeeded"}
                   /\ CohortLive(State, c)
                   /\ cohort[c].expectedCount >= 2)
                  => replies'[c] =
                         <<Failure("PLUGIN_ERROR", plugins'[i].sig,
                                   plugins[i].cmd)>>
       /\ \A c \in Cmds : cohort[c].failed => replies'[c] = replies[c]
      ]_vars

\* C4 witness: a cohort of two failed before any member completed, and
\* another member succeeded after that.
C4_Witness ==
    \E c \in Cmds :
        /\ cohort[c].failed
        /\ cohort[c].expectedCount = 2
        /\ cohort[c].completedCount = 0
        /\ \E i \in Members(c) : plugins[i].sig = "succeeded"
        /\ Len(replies[c]) = 1

\* A startdir or rescan request c that passes its local checks.
ScanRequest(c) ==
    \/ req'[c].subcmd = "rescan"
    \/ /\ req'[c].subcmd = "startdir"
       /\ req'[c].arg.dir \in ExistingDirs \ UnreadableDirs

\* C5: a startdir or rescan that registers no new plugin replies success in
\* the dispatch call, does not return pending and leaves the registry as it
\* was (no handshake begun); neither plugin_cmd_killed nor
\* plugin_cmd_succeeded is ever invoked for a request with an empty cohort.
C5_EmptyCohort ==
    [][/\ \A c \in Cmds :
              (Dispatched(c) /\ ScanRequest(c) /\ Len(plugins') = Len(plugins))
              => /\ replies'[c] = <<Listing(plugins)>>
                 /\ ret'[c] = "complete"
                 /\ plugins' = plugins
       /\ \A c \in Cmds :
              (cohort[c].open /\ cohort[c].expectedCount = 0)
              => /\ calls'[c] \subseteq {"plugin_cmd_all_complete"}
                 /\ replies'[c] = replies[c]
                 /\ ret'[c] = "complete"
      ]_vars

\* C5 witness: a startdir of a directory without executables was answered
\* while another request's member had no handshake begun.
C5_Witness ==
    \E c \in Cmds :
        /\ req[c].subcmd = "startdir"
        /\ cohort[c].open
        /\ cohort[c].expectedCount = 0
        /\ Len(replies[c]) = 1
        /\ \E i \in DOMAIN plugins :
               plugins[i].sig = "none" /\ ~plugins[i].hs

\* A request is waiting for its cohort.
Waiting(c) == ret[c] = "pending" /\ ~resolved[c]

\* Nothing of the requests other than c changes in this step.
OthersUntouched(c) ==
    \A d \in Cmds \ {c} :
        /\ replies'[d] = replies[d]
        /\ resolved'[d] = resolved[d]
        /\ cohort'[d] = cohort[d]
        /\ ret'[d] = ret[d]

\* C6: a start of an executable path that is already registered, in any
\* lifecycle state, is answered in the call with JSONRPC2_INVALID_PARAMS
\* "already registered"; it opens no cohort, does not return pending, and
\* leaves the registry and every other request as they were.
C6_DuplicateStart ==
    [][\A c \in Cmds :
          (/\ Dispatched(c)
           /\ req'[c].subcmd = "start"
           /\ req'[c].arg \in Executables
           /\ \E i \in DOMAIN plugins : plugins[i].cmd = req'[c].arg)
          => /\ replies'[c] =
                    <<Failure("JSONRPC2_INVALID_PARAMS", "already registered",
                              req'[c].arg)>>
             /\ ret'[c] = "complete"
             /\ plugins' = plugins
             /\ cohort' = cohort
             /\ OthersUntouched(c)
      ]_vars

\* C6 witness: a start of a path whose record had been killed was refused
\* while another request was waiting.
C6_Witness ==
    \E c \in Cmds, d \in Cmds, i \in DOMAIN plugins :
        /\ req[c].subcmd = "start"
        /\ Len(replies[c]) = 1
        /\ replies[c][1].what = "already registered"
        /\ plugins[i].cmd = req[c].arg
        /\ plugins[i].plugin_state = "Killed"
        /\ d < c
        /\ Waiting(d)

\* A request c whose local precondition does not hold.
PreconditionFails(c) ==
    \/ req'[c].subcmd = "start" /\ req'[c].arg \notin Executables
    \/ req'[c].subcmd = "startdir" /\ req'[c].arg.dir \notin ExistingDirs

\* C7: a start of a path that is not executable and a startdir of a
\* directory that does not exist are answered in the call with
\* JSONRPC2_INVALID_PARAMS, and the registry (records, order, states) and
\* all cohorts are as before the call.
C7_PreconditionFrame ==
    [][\A c \in Cmds :
          (Dispatched(c) /\ PreconditionFails(c))
          => /\ replies'[c] =
                    <<Failure("JSONRPC2_INVALID_PARAMS",
                              IF req'[c].subcmd = "start"
                              THEN "is not executable" ELSE "Could not open",
                              req'[c].arg)>>
             /\ ret'[c] = "complete"
             /\ plugins' = plugins
             /\ cohort' = cohort
             /\ OthersUntouched(c)
      ]_vars

\* C7 witness: both precondition failures were answered while a request was
\* waiting for its cohort.
C7_Witness ==
    \E c \in Cmds, d \in Cmds, e \in Cmds :
        /\ Len(replies[c]) = 1 /\ replies[c][1].what = "is not executable"
        /\ Len(replies[d]) = 1 /\ replies[d][1].what = "Could not open"
        /\ e < c /\ e < d
        /\ Waiting(e)

\* The records of registry r that name designates.
Matching(r, name) ==
    {i \in DOMAIN r : r[i].cmd = name \/ r[i].cmd.base = name.base}

\* C8: stop kills dynamic records only and no other step kills a record that
\* is not dynamic; a stop whose name designates non-dynamic records only
\* fails with "cannot be managed", a stop whose name designates no record
\* fails with "Could not find", and a stop that fails leaves the registry
\* unchanged.
C8_StopOnlyDynamic ==
    [][/\ \A c \in Cmds : \A k \in DOMAIN kills'[c] :
              plugins'[kills'[c][k]].dynamic
       /\ \A i \in DOMAIN plugins :
              ~plugins[i].dynamic => plugins'[i] = plugins[i]
       /\ \A c \in Cmds :
              (Dispatched(c) /\ req'[c].subcmd = "stop")
              => LET m == Matching(plugins, req'[c].arg)
                 IN  /\ m = {} =>
                            replies'[c] =
                                <<Failure("JSONRPC2_INVALID_PARAMS",
                                          "Could not find plugin",
                                          req'[c].arg)>>
                     /\ (m # {} /\ \A i \in m : ~plugins[i].dynamic) =>
                            replies'[c] =
                                <<Failure("JSONRPC2_INVALID_PARAMS",
                                          "cannot be managed when lightningd is up",
                                          req'[c].arg)>>
                     /\ replies'[c][1].kind = "fail" =>
                            plugins' = plugins /\ kills'[c] = <<>>
      ]_vars

\* C8 witness: one stop named a plugin that is not dynamic, another named
\* no plugin, and they got different errors.
C8_Witness ==
    \E c \in Cmds, d \in Cmds :
        /\ req[c].subcmd = "stop" /\ req[d].subcmd = "stop"
        /\ Len(replies[c]) = 1 /\ Len(replies[d]) = 1
        /\ replies[c][1].what = "cannot be managed when lightningd is up"
        /\ replies[d][1].what = "Could not find plugin"

\* The reply of a successful stop.
Stopped(name) ==
    [kind |-> "success", code |-> "none", what |-> "Successfully stopped",
     who |-> name, plugins |-> <<>>,
     legacy |-> IF deprecated_apis THEN "Successfully stopped" ELSE ""]

C10_StopIffDynamicMatch ==
    [][\A c \in Cmds :
          (Dispatched(c) /\ req'[c].subcmd = "stop")
          => LET dyn == {i \in Matching(plugins, req'[c].arg) :
                            plugins[i].dynamic}
             IN  /\ replies'[c][1].kind = "success" <=> dyn # {}
                 /\ dyn # {} =>
                        \E i \in dyn :
                            /\ kills'[c] = <<i>>
                            /\ plugins'[i].plugin_state = "Killed"
      ]_vars

\* Every executable of the default directory is in the registry.
DefaultDirKnown ==
    \A k \in DOMAIN DirList(DefaultDir) :
        \E i \in DOMAIN plugins : plugins[i].cmd = DirList(DefaultDir)[k]

\* C11: a rescan never replies a failure in the call, leaves every record
\* the registry holds as it is and registers no path twice; a rescan that
\* finds every executable of the default directory registered registers
\* nothing, leaves the registry unchanged and replies success in the call.
C11_RescanIdempotent ==
    [][\A c \in Cmds :
          (Dispatched(c) /\ req'[c].subcmd = "rescan")
          => /\ \A k \in DOMAIN replies'[c] : replies'[c][k].kind = "success"
             /\ Len(plugins') >= Len(plugins)
             /\ \A i \in DOMAIN plugins : plugins'[i] = plugins[i]
             /\ \A i \in DOMAIN plugins' : \A j \in DOMAIN plugins' :
                    plugins'[i].cmd = plugins'[j].cmd => i = j
             /\ DefaultDirKnown =>
                    /\ plugins' = plugins
                    /\ replies'[c] = <<Listing(plugins)>>
                    /\ ret'[c] = "complete"
      ]_vars

\* C11 witness: a rescan registered a plugin and waits; the rescan issued
\* right after it, the plugin untouched in between, was answered at once.
C11_Witness ==
    \E c \in Cmds, d \in Cmds, i \in DOMAIN plugins :
        /\ d = c + 1
        /\ req[c].subcmd = "rescan" /\ Waiting(c)
        /\ req[d].subcmd = "rescan" /\ ret[d] = "complete"
        /\ HasSuccess(d)
        /\ plugins[i].start_cmd = c
        /\ plugins[i].sig = "none" /\ ~plugins[i].hs

\* C12: list replies success in the call with one {name, active} entry per
\* record in registry order, active exactly for a record in state
\* INIT_COMPLETE; it does not return pending and changes no record, no
\* cohort and no other request.  The reply is a function of the registry
\* alone, so two calls on the same registry reply the same.
C12_ListPureRead ==
    [][\A c \in Cmds :
          (Dispatched(c) /\ req'[c].subcmd = "list")
          => /\ replies'[c] = <<Listing(plugins)>>
             /\ ret'[c] = "complete"
             /\ plugins' = plugins
             /\ cohort' = cohort
             /\ kills' = kills
             /\ OthersUntouched(c)
      ]_vars

\* C12 witness: two lists in a row, while another request waits, replied
\* the same: a record that is starting as inactive and a dynamic record as
\* active.
C12_Witness ==
    \E c \in Cmds, d \in Cmds, e \in Cmds :
        /\ req[c].subcmd = "list" /\ req[d].subcmd = "list" /\ d = c + 1
        /\ Len(replies[c]) = 1 /\ replies[d] = replies[c]
        /\ Waiting(e)
        /\ \E j \in DOMAIN replies[c][1].plugins :
               ~replies[c][1].plugins[j].active
        /\ \E j \in DOMAIN replies[c][1].plugins :
               j > Len(StartupPlugins) /\ replies[c][1].plugins[j].active

\* C13: the expiry of the timer on a member fails the request of a cohort
\* that still waits, through plugin_cmd_killed, with a PLUGIN_ERROR that
\* carries the timeout reason; no later step changes the replies of a
\* request that was failed by a timeout.
C13_Timeout ==
    [][/\ \A i \in DOMAIN plugins :
              LET c == plugins[i].start_cmd
              IN  (plugins[i].sig = "none" /\ plugins'[i].sig = TimeoutReason)
                  => /\ CohortLive(State, c)
                     /\ replies'[c] =
                            <<Failure("PLUGIN_ERROR", TimeoutReason,
                                      plugins[i].cmd)>>
                     /\ "plugin_cmd_killed" \in calls'[c]
       /\ \A c \in Cmds :
              (replies[c] # <<>> /\ replies[c][1].what = TimeoutReason)
              => replies'[c] = replies[c]
      ]_vars

\* C13 witness: a cohort of two timed out before any member completed and
\* its other member succeeded afterwards.
C13_Witness ==
    \E c \in Cmds :
        /\ cohort[c].expectedCount = 2
        /\ cohort[c].completedCount = 0
        /\ Len(replies[c]) = 1
        /\ replies[c][1].what = TimeoutReason
        /\ \E i \in Members(c) : plugins[i].sig = "succeeded"

\* C14: a rescan that registers new plugins begins the handshake of each of
\* them, as startdir does, and returns pending with them as its cohort.
C14_RescanLikeStartDir ==
    [][\A c \in Cmds :
          (/\ Dispatched(c)
           /\ req'[c].subcmd \in {"startdir", "rescan"}
           /\ Len(plugins') > Len(plugins))
          => /\ ret'[c] = "pending"
             /\ \A i \in DOMAIN plugins' \ DOMAIN plugins :
                    plugins'[i].start_cmd = c /\ plugins'[i].hs
      ]_vars

\* This step dispatches start request c, which registers a record whose
\* handshake could not be begun.
SubmitFails(c) ==
    /\ Dispatched(c)
    /\ req'[c].subcmd = "start"
    /\ Len(plugins') = Len(plugins) + 1
    /\ ~plugins'[Len(plugins')].hs

\* C15: a start whose handshake cannot be begun is answered in the call with
\* PLUGIN_ERROR and does not return pending; no later event, whatever
\* happens to the record it registered, changes the replies of a start that
\* was answered in the call.
C15_SubmitFailure ==
    [][/\ \A c \in Cmds :
              SubmitFails(c)
              => /\ replies'[c] =
                        <<Failure("PLUGIN_ERROR", "failed to start",
                                  req'[c].arg)>>
                 /\ ret'[c] = "complete"
       /\ \A c \in Cmds :
              (req[c].subcmd = "start" /\ ret[c] = "complete")
              => replies'[c] = replies[c]
      ]_vars

\* C15 witness: the record of a start that failed to begin its handshake
\* was later killed by a stop, and the start holds its single reply.
C15_Witness ==
    \E c \in Cmds, d \in Cmds, i \in DOMAIN plugins :
        /\ req[c].subcmd = "start"
        /\ replies[c] =
               <<Failure("PLUGIN_ERROR", "failed to start", req[c].arg)>>
        /\ plugins[i].start_cmd = c
        /\ kills[d] = <<i>>

\* C16: once every member of a cohort that was waited for has signalled,
\* in whatever order the signals arrived, the request holds exactly one
\* reply: success when all members succeeded, failure when one failed.
C16_OrderIndependent ==
    \A c \in Cmds :
        (ret[c] = "pending" /\ \A i \in Members(c) : plugins[i].sig # "none")
        => /\ Len(replies[c]) = 1
           /\ replies[c][1].kind = "success" <=>
                  (\A i \in Members(c) : plugins[i].sig = "succeeded")

\* C16 witness: in a cohort of two a member succeeded first and the other
\* failed after it.
C16_Witness ==
    \E c \in Cmds :
        /\ cohort[c].expectedCount = 2
        /\ cohort[c].completedCount = 1
        /\ cohort[c].failed
        /\ \A i \in Members(c) : plugins[i].sig # "none"

\* The members of the cohort of request c after this step.
MembersAfter(c) == {i \in DOMAIN plugins' : plugins'[i].start_cmd = c}

\* C17: a record belongs to the cohort of the request that registered it
\* and stays there; the expected count of an open cohort never changes and
\* counts its members; the completion of a record touches no request but
\* its own (and the stop that kills it); a request that waited is answered
\* from its own members: success when all of them succeeded, otherwise the
\* failure of one of them.
C17_CohortIsolation ==
    [][/\ \A c \in Cmds :
              Dispatched(c) =>
                  \A i \in DOMAIN plugins' \ DOMAIN plugins :
                      plugins'[i].start_cmd = c
       /\ \A i \in DOMAIN plugins :
              plugins'[i].start_cmd = plugins[i].start_cmd
       /\ \A c \in Cmds :
              cohort[c].open =>
                  /\ cohort'[c].expectedCount = cohort[c].expectedCount
                  /\ Cardinality(MembersAfter(c)) = cohort[c].expectedCount
       /\ \A i \in DOMAIN plugins :
              (plugins[i].sig = "none" /\ plugins'[i].sig # "none")
              => \A d \in Cmds \ {plugins[i].start_cmd} :
                     Dispatched(d) \/
                         /\ replies'[d] = replies[d]
                         /\ resolved'[d] = resolved[d]
                         /\ cohort'[d] = cohort[d]
       /\ \A c \in Cmds :
              (ret'[c] = "pending" /\ replies'[c] # <<>>)
              => IF replies'[c][1].kind = "success"
                 THEN \A i \in MembersAfter(c) : plugins'[i].sig = "succeeded"
                 ELSE \E i \in MembersAfter(c) :
                          /\ plugins'[i].cmd = replies'[c][1].who
                          /\ plugins'[i].sig = replies'[c][1].what
      ]_vars

\* C17 witness: two requests waited at the same time; the earlier one
\* succeeded after the later one had registered its plugins, and the later
\* one failed.
C17_Witness ==
    \E c \in Cmds, d \in Cmds :
        /\ c < d
        /\ ret[c] = "pending" /\ ret[d] = "pending"
        /\ HasSuccess(c)
        /\ cohort[d].failed
        /\ \A i \in Members(d) : i <= Len(replies[c][1].plugins)

\* C18: the step in which a cohort fails changes the record of the member
\* that failed and no other record: no sibling is killed or removed.
C18_NoRollback ==
    [][\A c \in Cmds :
          (~cohort[c].failed /\ cohort'[c].failed)
          => /\ Len(plugins') = Len(plugins)
             /\ \E i \in Members(c) :
                    /\ plugins[i].sig = "none"
                    /\ plugins'[i].sig \notin {"none", "succeeded"}
                    /\ \A j \in DOMAIN plugins \ {i} :
                           plugins'[j] = plugins[j]
                    /\ \A d \in Cmds :
                           kills'[d] \in {kills[d], Append(kills[d], i)}
      ]_vars

\* C18 witness: after a cohort failed, a sibling of the failed member
\* became active and a later list shows it as active.
C18_Witness ==
    \E c \in Cmds, l \in Cmds, j \in DOMAIN plugins :
        /\ cohort[c].failed
        /\ cohort[c].completedCount = 0
        /\ plugins[j].start_cmd = c
        /\ plugins[j].plugin_state = "INIT_COMPLETE"
        /\ req[l].subcmd = "list"
        /\ Len(replies[l]) = 1
        /\ j \in DOMAIN replies[l][1].plugins
        /\ replies[l][1].plugins[j].active

\* C19: a stop whose matched record is dynamic and still starting as a
\* member of a cohort that another request waits for is answered with
\* success, and in the same step the waiting request gets its only reply,
\* the failure that carries the reason of the stop; no later step changes
\* the replies of a request that was failed by a stop.
C19_StopRacesStart ==
    [][/\ \A c \in Cmds : \A i \in DOMAIN plugins :
              (/\ Dispatched(c)
               /\ req'[c].subcmd = "stop"
               /\ i \in Matching(plugins, req'[c].arg)
               /\ \A j \in Matching(plugins, req'[c].arg) : i <= j
               /\ plugins[i].dynamic
               /\ plugins[i].sig = "none"
               /\ plugins[i].start_cmd \in Cmds
               /\ Waiting(plugins[i].start_cmd))
              => /\ replies'[c] = <<Stopped(req'[c].arg)>>
                 /\ replies'[plugins[i].start_cmd] =
                        <<Failure("PLUGIN_ERROR", StopReason,
                                  plugins[i].cmd)>>
       /\ \A d \in Cmds :
              (replies[d] # <<>> /\ replies[d][1].what = StopReason)
              => replies'[d] = replies[d]
      ]_vars

\* C19 witness: a stop killed a starting member of a waiting cohort of two,
\* and the other member succeeded after that.
C19_Witness ==
    \E c \in Cmds, d \in Cmds :
        /\ req[c].subcmd = "stop"
        /\ replies[c] = <<Stopped(req[c].arg)>>
        /\ Len(replies[d]) = 1
        /\ replies[d][1].what = StopReason
        /\ cohort[d].expectedCount = 2
        /\ cohort[d].completedCount = 0
        /\ \E i \in Members(d) : plugins[i].sig = "succeeded"

\* C20: a start that replies a failure in the call leaves the registry as
\* it was before the call.
C20_FailedStartFrame ==
    [][\A c \in Cmds :
          (/\ Dispatched(c)
           /\ req'[c].subcmd = "start"
           /\ ret'[c] = "complete"
           /\ replies'[c] # <<>>
           /\ replies'[c][1].kind = "fail")
          => plugins' = plugins
      ]_vars

====
